---- MODULE Spec2Model ----
(***************************************************************************)
(* The script-host bridge of harmonizer: compose (compose.rs) and plan     *)
(* (plan.rs).  Each call creates a JsRuntime and an mpsc channel, registers *)
(* op_print and op_composition_result, executes the bootstrap script, the  *)
(* bridge module, the input assignment(s) and the driver script, and then  *)
(* blocks on rx.recv().  The scripts themselves are not part of the Rust   *)
(* sources: a script is modelled by the host-visible events it can cause   *)
(* (op invocations, global writes, normal return or uncaught exception).   *)
(*                                                                         *)
(* Strings are sequences of tokens.  JSON values have one uniform shape:   *)
(*   t : "null" | "true" | "false" | "num" | "str" | "arr" | "obj"         *)
(*   s : the string (t = "str")                                            *)
(*   k : the keys (t = "obj"), a : the members (t = "obj" or "arr")        *)
(***************************************************************************)
EXTENDS Integers, Sequences, FiniteSets, TLC

\* ------------------------------------------------------------------ bounds
\* Calls made in one run of the process, over all threads, with the stub
\* scripts loaded and with the probe scripts loaded.
MaxCalls == 2
MaxProbeCalls == 3
\* Events (op invocations, global writes) the stub scripts cause in one run.
MaxEvents == 2

Threads == {"t1", "t2"}

\* ------------------------------------------------------------ JSON values
JNull == [t |-> "null", s |-> <<>>, k |-> <<>>, a |-> <<>>]
JNum == [t |-> "num", s |-> <<>>, k |-> <<>>, a |-> <<>>]
JBool(b) == [t |-> IF b THEN "true" ELSE "false", s |-> <<>>, k |-> <<>>, a |-> <<>>]
JStr(x) == [t |-> "str", s |-> x, k |-> <<>>, a |-> <<>>]
JArr(xs) == [t |-> "arr", s |-> <<>>, k |-> <<>>, a |-> xs]
JObj(keys, vals) == [t |-> "obj", s |-> <<>>, k |-> keys, a |-> vals]

HasKey(v, key) == \E i \in 1..Len(v.k) : v.k[i] = key
Member(v, key) == v.a[CHOOSE i \in 1..Len(v.k) : v.k[i] = key]

\* ------------------------------------------------- typed results and errors
\* Option<String> and Option<...Extensions>: some = FALSE is None.
NoneStr == [some |-> FALSE, v |-> <<>>]
SomeStr(x) == [some |-> TRUE, v |-> x]

\* CompositionError / PlanningError: message and extensions (code).
Error(m, e) == [message |-> m, extensions |-> e]

\* "UNKNOWN"
UNKNOWN == <<"UNKNOWN">>

\* The code is looked up only when a message came along.
codeOfMessage(err) ==
  IF err.message.some /\ err.extensions.some THEN err.extensions.v ELSE UNKNOWN

code(err) == IF err.extensions.some THEN err.extensions.v ELSE UNKNOWN

\* Result<String, Vec<Error>>; tag "Fail" stands for a serde error.
Ok(x) == [tag |-> "Ok", data |-> x, errs |-> <<>>]
Err(es) == [tag |-> "Err", data |-> <<>>, errs |-> es]
Fail == [tag |-> "Fail", data |-> <<>>, errs |-> <<>>]

\* --------------------------------------------------------- deserialization
\* Option<String> from a JSON value; ok = FALSE is a serde error.
DeOptString(v) ==
  CASE v.t = "null" -> [ok |-> TRUE, val |-> NoneStr]
    [] v.t = "str" -> [ok |-> TRUE, val |-> SomeStr(v.s)]
    [] OTHER -> [ok |-> FALSE, val |-> NoneStr]

\* ...Extensions { code: String }: a map with a string "code" (other keys are
\* ignored), or a one-element sequence holding the string.
DeExtensions(v) ==
  CASE v.t = "obj" ->
         IF HasKey(v, "code") /\ Member(v, "code").t = "str"
           THEN [ok |-> TRUE, val |-> SomeStr(Member(v, "code").s)]
           ELSE [ok |-> FALSE, val |-> NoneStr]
    [] v.t = "arr" ->
         IF Len(v.a) = 1 /\ v.a[1].t = "str"
           THEN [ok |-> TRUE, val |-> SomeStr(v.a[1].s)]
           ELSE [ok |-> FALSE, val |-> NoneStr]
    [] OTHER -> [ok |-> FALSE, val |-> NoneStr]

DeOptExtensions(v) ==
  IF v.t = "null" THEN [ok |-> TRUE, val |-> NoneStr] ELSE DeExtensions(v)

\* One field of an error entry: from a map (an absent Option field reads as
\* null, i.e. None; unknown keys are ignored) or from a sequence of exactly
\* the two fields in declaration order.
DeField(v, key, pos) ==
  IF v.t = "obj"
    THEN [ok |-> TRUE, v |-> IF HasKey(v, key) THEN Member(v, key) ELSE JNull]
    ELSE IF v.t = "arr" /\ Len(v.a) = 2
      THEN [ok |-> TRUE, v |-> v.a[pos]]
      ELSE [ok |-> FALSE, v |-> JNull]

DeError(v) ==
  LET m == DeField(v, "message", 1)
      e == DeField(v, "extensions", 2)
      dm == DeOptString(m.v)
      de == DeOptExtensions(e.v)
  IN [ok |-> m.ok /\ e.ok /\ dm.ok /\ de.ok, val |-> Error(dm.val, de.val)]

\* Elements that do not deserialize are skipped.
DeErrorListLenient(v) ==
  IF v.t = "arr"
    THEN LET good == SelectSeq(v.a, LAMBDA e : DeError(e).ok)
         IN Err([i \in 1..Len(good) |-> DeError(good[i]).val])
    ELSE Fail

\* Only the first element is kept.
DeErrorListFirstOnly(v) ==
  IF v.t = "arr" /\ \A i \in 1..Len(v.a) : DeError(v.a[i]).ok
    THEN Err([i \in 1..(IF Len(v.a) > 0 THEN 1 ELSE 0) |-> DeError(v.a[i]).val])
    ELSE Fail

\* Vec<Error>: every element must deserialize, in order.
DeErrorList(v) ==
  IF v.t = "arr" /\ \A i \in 1..Len(v.a) : DeError(v.a[i]).ok
    THEN Err([i \in 1..Len(v.a) |-> DeError(v.a[i]).val])
    ELSE Fail

\* serde_json::from_value::<Result<String, Vec<Error>>>: an externally
\* tagged enum, i.e. a map with the single key "Ok" or "Err".
from_value(v) ==
  IF v.t = "obj" /\ Len(v.k) = 1
    THEN CASE v.k[1] = "Ok" -> IF v.a[1].t = "str" THEN Ok(v.a[1].s) ELSE Fail
           [] v.k[1] = "Err" -> DeErrorList(v.a[1])
           [] OTHER -> Fail
    ELSE Fail

\* ------------------------------------------------------------ the requests
\* ServiceDefinition::new
ServiceDefinition(name, url, type_defs) ==
  [name |-> name, url |-> url, type_defs |-> type_defs]

\* Characters that matter to a JSON / JavaScript string literal: the double
\* quote, the backslash and a control character (line feed).
Quote == "DQUOTE"
Backslash == "BSLASH"
Newline == "LF"

Users ==
  ServiceDefinition(<<"users">>, <<"undefined">>,
                    <<"type", "User", Newline, Quote, "]", Backslash, "n">>)
Movies == ServiceDefinition(<<"movies">>, <<"undefined">>, <<"type", "Movie">>)

\* QueryPlanOptions::DEFAULT
DEFAULT == [auto_fragmentization |-> FALSE]

NoContext == [schema |-> <<>>, query |-> <<>>, operation |-> <<>>]

\* A request: the arguments of one call of compose or plan.
ComposeRequest(service_list) ==
  [kind |-> "compose", service_list |-> service_list,
   context |-> NoContext, options |-> DEFAULT]
PlanRequest(context, options) ==
  [kind |-> "plan", service_list |-> <<>>, context |-> context, options |-> options]

Requests ==
  { ComposeRequest(<<Users, Movies>>),
    PlanRequest([schema |-> <<"Garbage">>, query |-> <<"QUERY", Quote, Newline>>,
                 operation |-> <<>>], DEFAULT) }

\* #[derive(Serialize)] #[serde(rename_all = "camelCase")]
SerServiceDefinition(d) ==
  JObj(<<"name", "url", "typeDefs">>, <<JStr(d.name), JStr(d.url), JStr(d.type_defs)>>)
\* The elements in the opposite order.
SerServiceListReversed(l) ==
  JArr([i \in 1..Len(l) |-> SerServiceDefinition(l[Len(l) + 1 - i])])
SerServiceList(l) == JArr([i \in 1..Len(l) |-> SerServiceDefinition(l[i])])
SerOperationalContext(x) ==
  JObj(<<"schema", "query", "operation">>, <<JStr(x.schema), JStr(x.query), JStr(x.operation)>>)
SerQueryPlanOptions(o) ==
  JObj(<<"autoFragmentization">>, <<JBool(o.auto_fragmentization)>>)

\* The characters are copied as they are.
EscapeRaw(x) == x

\* serde_json's string escaping: a quote, a backslash and a control character
\* are written as a backslash sequence, anything else as it is.
RECURSIVE Escape(_)
Escape(x) ==
  IF x = <<>>
    THEN <<>>
    ELSE (CASE Head(x) = Quote -> <<Backslash, Quote>>
            [] Head(x) = Backslash -> <<Backslash, Backslash>>
            [] Head(x) = Newline -> <<Backslash, "n">>
            [] OTHER -> <<Head(x)>>) \o Escape(Tail(x))

\* serde_json::to_string: the compact JSON text of a value, as a sequence of
\* characters (a word that needs no escaping counts as one character).
RECURSIVE to_string(_)
RECURSIVE to_string_from(_, _)
to_string_from(v, i) ==
  IF i > Len(v.a)
    THEN <<>>
    ELSE (IF i > 1 THEN <<",">> ELSE <<>>)
         \o (IF v.t = "obj" THEN <<Quote, v.k[i], Quote, ":">> ELSE <<>>)
         \o to_string(v.a[i])
         \o to_string_from(v, i + 1)
to_string(v) ==
  CASE v.t = "str" -> <<Quote>> \o Escape(v.s) \o <<Quote>>
    [] v.t = "arr" -> <<"[">> \o to_string_from(v, 1) \o <<"]">>
    [] v.t = "obj" -> <<"{">> \o to_string_from(v, 1) \o <<"}">>
    [] v.t = "num" -> <<"1">>
    [] OTHER -> <<v.t>>

\* The engine reading a string literal whose opening quote is before ts[i]:
\* up to the closing quote, backslash sequences decoded; a raw line feed or
\* the end of the text inside the literal is a syntax error.
RECURSIVE ReadString(_, _, _)
ReadString(ts, i, acc) ==
  IF i > Len(ts) \/ ts[i] = Newline
    THEN [ok |-> FALSE, v |-> JNull, next |-> i]
    ELSE IF ts[i] = Quote
      THEN [ok |-> TRUE, v |-> JStr(acc), next |-> i + 1]
      ELSE IF ts[i] = Backslash
        THEN IF i + 1 > Len(ts)
               THEN [ok |-> FALSE, v |-> JNull, next |-> i]
               ELSE ReadString(ts, i + 2,
                               Append(acc, IF ts[i + 1] = "n" THEN Newline ELSE ts[i + 1]))
        ELSE ReadString(ts, i + 1, Append(acc, ts[i]))

\* The engine reading the expression that starts at ts[i]: a literal, an
\* array or an object; anything else makes the evaluation fail.
RECURSIVE ReadValue(_, _)
RECURSIVE ReadItems(_, _, _, _, _)
ReadItems(ts, i, obj, keys, vals) ==
  LET bad == [ok |-> FALSE, v |-> JNull, next |-> i]
      j == IF vals = <<>> THEN i ELSE i + 1
      key == IF obj /\ j <= Len(ts) /\ ts[j] = Quote THEN ReadString(ts, j + 1, <<>>) ELSE bad
      k == IF obj THEN key.next + 1 ELSE j
      item == IF k <= Len(ts) THEN ReadValue(ts, k) ELSE bad
  IN IF i > Len(ts)
       THEN bad
       ELSE IF ts[i] = (IF obj THEN "}" ELSE "]")
         THEN [ok |-> TRUE, v |-> IF obj THEN JObj(keys, vals) ELSE JArr(vals), next |-> i + 1]
         ELSE IF /\ vals # <<>> => ts[i] = ","
                 /\ obj => /\ key.ok
                           /\ Len(key.v.s) = 1
                           /\ key.next <= Len(ts)
                           /\ ts[key.next] = ":"
                 /\ item.ok
                THEN ReadItems(ts, item.next, obj,
                               IF obj THEN Append(keys, key.v.s[1]) ELSE keys,
                               Append(vals, item.v))
                ELSE bad
ReadValue(ts, i) ==
  CASE ts[i] = Quote -> ReadString(ts, i + 1, <<>>)
    [] ts[i] = "[" -> ReadItems(ts, i + 1, FALSE, <<>>, <<>>)
    [] ts[i] = "{" -> ReadItems(ts, i + 1, TRUE, <<>>, <<>>)
    [] ts[i] = "null" -> [ok |-> TRUE, v |-> JNull, next |-> i + 1]
    [] ts[i] = "true" -> [ok |-> TRUE, v |-> JBool(TRUE), next |-> i + 1]
    [] ts[i] = "false" -> [ok |-> TRUE, v |-> JBool(FALSE), next |-> i + 1]
    [] ts[i] = "1" -> [ok |-> TRUE, v |-> JNum, next |-> i + 1]
    [] OTHER -> [ok |-> FALSE, v |-> JNull, next |-> i]

\* runtime.execute of the text "name = <expression>": the global the
\* assignment names and the value of the expression; ok = FALSE when the
\* text is not one such assignment (execute returns Err).
Evaluate(ts) ==
  IF Len(ts) >= 3 /\ ts[2] = "="
    THEN LET r == ReadValue(ts, 3)
         IN [ok |-> r.ok /\ r.next = Len(ts) + 1, global |-> ts[1], val |-> r.v]
    ELSE [ok |-> FALSE, global |-> "", val |-> JNull]

Assignments == {"<set_service_list>", "<set_context>", "<set_options>"}
Drivers == {"do_compose.js", "do_plan.js"}

\* The session states.  A call in state X has completed the step X names and
\* is executing the step that leads to the next state; in "Triggered" the
\* driver script is running.
States(kind) ==
  IF kind = "compose"
    THEN <<"Created", "CapabilitiesInstalled", "BootstrapLoaded", "ModuleLoaded",
           "InputInjected", "Triggered", "ResultAwaited", "Closed">>
    ELSE <<"Created", "CapabilitiesInstalled", "BootstrapLoaded", "ModuleLoaded",
           "ContextInjected", "InputInjected", "Triggered", "ResultAwaited", "Closed">>

\* The script runtime.execute is evaluating while the call is in state st.
ScriptIn(kind, st) ==
  CASE st = "CapabilitiesInstalled" -> "<init>"
    [] st = "BootstrapLoaded" -> "bridge.js"
    [] st = "ModuleLoaded" -> IF kind = "compose" THEN "<set_service_list>" ELSE "<set_context>"
    [] st = "ContextInjected" -> "<set_options>"
    [] st = "Triggered" -> IF kind = "compose" THEN "do_compose.js" ELSE "do_plan.js"
    [] OTHER -> ""

\* The module is never loaded: the step after the bootstrap is left out.
StateAfterSkipping(kind, st) ==
  LET ss == States(kind)
      i == CHOOSE j \in 1..Len(ss) : ss[j] = st
  IN ss[IF st = "BootstrapLoaded" THEN i + 2 ELSE i + 1]

\* The state that follows st in the body of compose / plan.
StateAfter(kind, st) ==
  LET ss == States(kind)
  IN ss[1 + CHOOSE i \in 1..Len(ss) : ss[i] = st]

\* format!("serviceList = {}", ...), format!("context = {}", ...),
\* format!("options = {}", ...): the global an assignment binds and its value.
AssignedGlobal(script) ==
  CASE script = "<set_service_list>" -> "serviceList"
    [] script = "<set_context>" -> "context"
    [] script = "<set_options>" -> "options"

AssignedValue(script, r) ==
  CASE script = "<set_service_list>" -> SerServiceList(r.service_list)
    [] script = "<set_context>" -> SerOperationalContext(r.context)
    [] script = "<set_options>" -> SerQueryPlanOptions(r.options)

AssignedText(script, r) ==
  <<AssignedGlobal(script), "=">> \o to_string(AssignedValue(script, r))

\* ------------------------------------------- what the scripts may deliver
Payloads ==
  { \* {"Ok": "sdl"}
    JObj(<<"Ok">>, <<JStr(<<"sdl">>)>>),
    \* {"Err": [{"message": "Syntax Error"}]}
    JObj(<<"Err">>, <<JArr(<<JObj(<<"message">>, <<JStr(<<"Syntax Error">>)>>)>>)>>),
    \* {"Err": []}
    JObj(<<"Err">>, <<JArr(<<>>)>>),
    \* {"Err": [{"message": "m1", "extensions": {"code": "C1"}, "locations": 1},
    \*          [null, {"code": "C2"}], {}]}
    JObj(<<"Err">>, <<JArr(<<
      JObj(<<"message", "extensions", "locations">>,
           <<JStr(<<"m1">>), JObj(<<"code">>, <<JStr(<<"C1">>)>>), JNum>>),
      JArr(<<JNull, JObj(<<"code">>, <<JStr(<<"C2">>)>>)>>),
      JObj(<<>>, <<>>)>>)>>),
    \* {"Err": [{"message": "m1"}, {"message": 1}]}
    JObj(<<"Err">>, <<JArr(<<
      JObj(<<"message">>, <<JStr(<<"m1">>)>>),
      JObj(<<"message">>, <<JNum>>)>>)>>),
    \* {"data": "sdl"}
    JObj(<<"data">>, <<JStr(<<"sdl">>)>>) }

\* ------------------------------------------------------------------ state
VARIABLES
  module,   \* the embedded scripts loaded: "stub" (any behaviour) or "probe"
  process,  \* "running" or "aborted"
  ncalls,   \* calls started so far
  events,   \* events the stub scripts have caused so far
  envs,     \* the JsRuntime instances, by id
  chans,    \* the mpsc channels, by id
  pc,       \* the session state of each thread's call
  req,      \* the arguments of the thread's current call
  inv,      \* the number of the thread's current call
  rt,       \* the thread's local `runtime` (an id of envs, 0: none)
  tx,       \* the thread's local `tx` until it is moved into the op closure
  rx,       \* the thread's local `rx` (an id of chans, 0: none)
  outcome,  \* how the thread's current call ended
  hist,     \* the session states the current call has passed through
  stats,    \* counters of the current session's script events
  fault,    \* the script of the current session that failed to evaluate
  last,     \* the value last passed to op_composition_result in the session
  trace     \* what the scripts of the current session did, in order

vars ==
  <<module, process, ncalls, events, envs, chans, pc, req, inv, rt, tx, rx,
    outcome, hist, stats, fault, last, trace>>

\* What only Call changes.
callvars == <<module, ncalls, req, inv>>

Ids == 1..(IF MaxCalls > MaxProbeCalls THEN MaxCalls ELSE MaxProbeCalls)
CallLimit == IF module = "stub" THEN MaxCalls ELSE MaxProbeCalls

GlobalNames == {"serviceList", "context", "options", "scratch"}
InputGlobals == {"serviceList", "context", "options"}

\* A global binding; `by` is the number of the call during which it was made.
Unbound == [set |-> FALSE, val |-> JNull, by |-> 0]
Bound(v, n) == [set |-> TRUE, val |-> v, by |-> n]

\* An environment that starts with what an earlier call left behind.
DirtyEnv ==
  [live |-> TRUE, ops |-> {}, tx |-> 0, trapped |-> FALSE,
   globals |-> [g \in GlobalNames |->
                  IF g = "scratch" /\ ncalls > 0
                    THEN Bound(JStr(<<"seen">>), ncalls)
                    ELSE Unbound]]

\* JsRuntime::new(Default::default()): no op registered, no global bound.
NewEnv ==
  [live |-> TRUE, ops |-> {}, tx |-> 0, trapped |-> FALSE,
   globals |-> [g \in GlobalNames |-> Unbound]]

DeadEnv ==
  [live |-> FALSE, ops |-> {}, tx |-> 0, trapped |-> FALSE,
   globals |-> [g \in GlobalNames |-> Unbound]]

\* A channel that already holds a value when it is created.
PrefilledChannel ==
  [q |-> <<[val |-> [tag |-> "Ok", data |-> <<"stale">>, errs |-> <<>>],
            raw |-> JNull, by |-> 0, src |-> {}]>>,
   senders |-> 1, receiver |-> TRUE]

\* std::sync::mpsc::channel(): an empty unbounded queue, one Sender, one Receiver.
NewChannel == [q |-> <<>>, senders |-> 1, receiver |-> TRUE]
DeadChannel == [q |-> <<>>, senders |-> 0, receiver |-> FALSE]

\* channel() hands out the channel of the call before.
ReusedChannelId == IF ncalls = 0 THEN 1 ELSE ncalls

\* Each JsRuntime::new and each channel() yields an object of its own.
NewRuntimeId == ncalls + 1
NewChannelId == ncalls + 1

NoRequest ==
  [kind |-> "none", service_list |-> <<>>, context |-> NoContext, options |-> DEFAULT]
\* A message in a channel: the typed result, with the value it was decoded
\* from, the call whose session sent it and the calls that bound the input
\* globals that session could read.
NoMessage == [val |-> Fail, raw |-> JNull, by |-> 0, src |-> {}]
NoOutcome == [k |-> "none", msg |-> NoMessage, at |-> "", unread |-> 0]
NoStats == [script_events |-> 0, published |-> 0, printed |-> 0]
NoValue == [set |-> FALSE, val |-> JNull]

Init ==
  /\ module \in {"stub", "probe"}
  /\ process = "running"
  /\ ncalls = 0
  /\ events = 0
  /\ envs = [i \in Ids |-> DeadEnv]
  /\ chans = [i \in Ids |-> DeadChannel]
  /\ pc = [c \in Threads |-> "Idle"]
  /\ req = [c \in Threads |-> NoRequest]
  /\ inv = [c \in Threads |-> 0]
  /\ rt = [c \in Threads |-> 0]
  /\ tx = [c \in Threads |-> 0]
  /\ rx = [c \in Threads |-> 0]
  /\ outcome = [c \in Threads |-> NoOutcome]
  /\ hist = [c \in Threads |-> <<>>]
  /\ stats = [c \in Threads |-> NoStats]
  /\ fault = [c \in Threads |-> ""]
  /\ last = [c \in Threads |-> NoValue]
  /\ trace = [c \in Threads |-> <<>>]

Script(c) == ScriptIn(req[c].kind, pc[c])

\* Scripts run on their own, beside the statements of the call.
RunningAnytime(c) == rt[c] # 0

Running(c) == Script(c) \in {"<init>", "bridge.js"} \cup Drivers

\* One more entry of the session's trace: the script being executed, what
\* happened, the value passed (result delivery) and how a panic inside an op
\* ended ("" when the op returned).
Logged(c, ev, val, how) ==
  [trace EXCEPT ![c] = Append(@, [script |-> Script(c), ev |-> ev, val |-> val, how |-> how])]

\* ----------------------------------------------------- leaving the function
\* The locals of compose / plan go out of scope: rx, then (inside runtime)
\* the op closure that owns tx, then the runtime itself.
DropLocals(c) ==
  LET t == IF tx[c] # 0 THEN tx[c] ELSE envs[rt[c]].tx
      c1 == IF t # 0 THEN [chans EXCEPT ![t].senders = @ - 1] ELSE chans
      c2 == [c1 EXCEPT ![rx[c]].receiver = FALSE]
  IN /\ envs' = [envs EXCEPT ![rt[c]] = DeadEnv]
     /\ chans' = [i \in Ids |->
                    IF c2[i].senders <= 0 /\ ~c2[i].receiver
                      THEN [c2[i] EXCEPT !.q = <<>>]
                      ELSE c2[i]]
     /\ rt' = [rt EXCEPT ![c] = 0]
     /\ tx' = [tx EXCEPT ![c] = 0]
     /\ rx' = [rx EXCEPT ![c] = 0]

\* The call ends with the value m as its result.
Finish(c, m, unread) ==
  /\ pc' = [pc EXCEPT ![c] = "Closed"]
  /\ outcome' = [outcome EXCEPT ![c] =
       [k |-> "returned", msg |-> m, at |-> pc[c], unread |-> unread]]
  /\ hist' = [hist EXCEPT ![c] = Append(@, "Closed")]
  /\ DropLocals(c)

\* A value already in the channel is returned in place of the panic.
PanicSalvaging(c) ==
  IF rx[c] # 0 /\ chans[rx[c]].q # <<>>
    THEN Finish(c, Head(chans[rx[c]].q), Len(chans[rx[c]].q) - 1)
    ELSE /\ pc' = [pc EXCEPT ![c] = "Closed"]
         /\ outcome' = [outcome EXCEPT ![c] = [NoOutcome EXCEPT !.k = "panicked", !.at = pc[c]]]
         /\ hist' = [hist EXCEPT ![c] = Append(@, "Closed")]
         /\ DropLocals(c)

\* A panic raised in the body of compose / plan (a failed expect) unwinds the
\* calling thread.
Panic(c) ==
  /\ pc' = [pc EXCEPT ![c] = "Closed"]
  /\ outcome' = [outcome EXCEPT ![c] = [NoOutcome EXCEPT !.k = "panicked", !.at = pc[c]]]
  /\ hist' = [hist EXCEPT ![c] = Append(@, "Closed")]
  /\ DropLocals(c)

\* The body goes on to its next statement.
Proceed(c) ==
  /\ pc' = [pc EXCEPT ![c] = StateAfter(req[c].kind, @)]
  /\ hist' = [hist EXCEPT ![c] = Append(@, StateAfter(req[c].kind, pc[c]))]
  /\ UNCHANGED <<envs, chans, rt, tx, rx, outcome>>

\* A failed evaluation is ignored.
ExpectSwallowed(c, ok) == Proceed(c)

\* A failed evaluation is handed to the caller as an error list.
ExpectAsErrors(c, ok) ==
  IF ok
    THEN Proceed(c)
    ELSE Finish(c, [NoMessage EXCEPT !.val = Err(<<Error(SomeStr(<<"fault">>), NoneStr)>>)], 0)

\* plan hands a failed evaluation to its caller as an error list; compose
\* does not.
ExpectAsErrorsInPlan(c, ok) ==
  IF ok
    THEN Proceed(c)
    ELSE IF req[c].kind = "plan"
      THEN Finish(c, [NoMessage EXCEPT !.val = Err(<<Error(SomeStr(<<"fault">>), NoneStr)>>)], 0)
      ELSE Panic(c)

\* runtime.execute(..).expect(".."): ok tells whether execute returned Ok.
Expect(c, ok) == IF ok THEN Proceed(c) ELSE Panic(c)

\* The failure is handed to the script as the op's error; the call goes on.
OpReportsError(c, how) ==
  UNCHANGED <<process, envs, chans, pc, rt, tx, rx, outcome, hist>>

\* A panic raised inside an op closure crosses the engine's foreign frames:
\* it either unwinds the calling thread or aborts the process.
OpPanic(c, how) ==
  IF how = "unwind"
    THEN Panic(c) /\ UNCHANGED process
    ELSE /\ process' = "aborted"
         /\ outcome' = [outcome EXCEPT ![c] = [NoOutcome EXCEPT !.k = "aborted", !.at = pc[c]]]
         /\ UNCHANGED <<envs, chans, pc, rt, tx, rx, hist>>

\* ------------------------------------------------- the embedded scripts
\* The tokens of a JSON value, in document order.
RECURSIVE Flatten(_)
RECURSIVE FlattenFrom(_, _)
FlattenFrom(v, i) ==
  IF i > Len(v.a)
    THEN <<>>
    ELSE (IF v.t = "obj" THEN <<v.k[i]>> ELSE <<>>) \o Flatten(v.a[i]) \o FlattenFrom(v, i + 1)
Flatten(v) ==
  CASE v.t = "str" -> v.s
    [] v.t \in {"arr", "obj"} -> <<v.t>> \o FlattenFrom(v, 1)
    [] OTHER -> <<v.t>>

\* Everything a script can read in its environment: the bound globals.
Snapshot(globals) ==
  LET Part(g) == IF globals[g].set THEN <<g>> \o Flatten(globals[g].val) ELSE <<>>
  IN Part("serviceList") \o Part("context") \o Part("options") \o Part("scratch")

\* The probe module: its driver delivers, as a success string, everything it
\* can read in its environment, then leaves a global behind.  Its output is a
\* function of the environment alone.
ProbePayload(env) == JObj(<<"Ok">>, <<JStr(Snapshot(env.globals))>>)

\* Which event the loaded scripts may cause next in the session of thread c.
\* The stub module does anything the host can observe, within MaxEvents events
\* per run, in the module script and in the driver script (its bootstrap
\* script only ends, normally or not); a global of its own is bound by the
\* probe module only, the one module whose output depends on it.
ModuleAllows(c, ev) ==
  IF module = "stub"
    THEN \/ ev \in {"return", "throw"}
         \/ ev # "write" /\ Script(c) # "<init>" /\ events < MaxEvents
    ELSE LET k == stats[c].script_events
         IN CASE ev = "deliver" -> Script(c) \in Drivers /\ k = 0
              [] ev = "write" -> Script(c) \in Drivers /\ k = 1
              [] ev = "return" -> Script(c) \notin Drivers \/ k = 2
              [] OTHER -> FALSE

Deliverable(c) ==
  CASE module = "stub" -> Payloads
    [] module = "probe" /\ Running(c) -> {ProbePayload(envs[rt[c]])}
    [] OTHER -> {}

\* The counters after one more event of the running script.
Counted(c) ==
  IF module = "stub" THEN stats ELSE [stats EXCEPT ![c].script_events = @ + 1]
Spent == IF module = "stub" THEN events + 1 ELSE events

\* --------------------------------------------------------------- actions
\* compose(service_list) / plan(context, options) is entered:
\*   let mut runtime = JsRuntime::new(Default::default());
\*   let (tx, rx) = channel();
Call(c, r) ==
  /\ process = "running"
  /\ pc[c] \in {"Idle", "Closed"}
  /\ ncalls < CallLimit
  /\ ncalls' = ncalls + 1
  /\ envs' = [envs EXCEPT ![NewRuntimeId] = NewEnv]
  /\ chans' = [chans EXCEPT ![NewChannelId] = NewChannel]
  /\ rt' = [rt EXCEPT ![c] = NewRuntimeId]
  /\ tx' = [tx EXCEPT ![c] = NewChannelId]
  /\ rx' = [rx EXCEPT ![c] = NewChannelId]
  /\ inv' = [inv EXCEPT ![c] = ncalls + 1]
  /\ req' = [req EXCEPT ![c] = r]
  /\ pc' = [pc EXCEPT ![c] = "Created"]
  /\ outcome' = [outcome EXCEPT ![c] = NoOutcome]
  /\ hist' = [hist EXCEPT ![c] = <<"Created">>]
  /\ stats' = [stats EXCEPT ![c] = NoStats]
  /\ fault' = [fault EXCEPT ![c] = ""]
  /\ last' = [last EXCEPT ![c] = NoValue]
  /\ trace' = [trace EXCEPT ![c] = <<>>]
  /\ UNCHANGED <<module, process, events>>

\* runtime.register_op("op_print", ...);
\* runtime.register_op("op_composition_result", op_sync(move |..| { tx.send(..) }));
RegisterOps(c) ==
  /\ process = "running"
  /\ pc[c] = "Created"
  /\ envs' = [envs EXCEPT ![rt[c]].ops = {"op_print", "op_composition_result"},
                          ![rt[c]].tx = tx[c]]
  /\ tx' = [tx EXCEPT ![c] = 0]
  /\ pc' = [pc EXCEPT ![c] = "CapabilitiesInstalled"]
  /\ hist' = [hist EXCEPT ![c] = Append(@, "CapabilitiesInstalled")]
  /\ UNCHANGED <<callvars, process, events, chans, rt, rx, outcome, stats, fault, last, trace>>

\* runtime.execute("<set_...>", "name = <json>").expect(..): the assignment
\* binds the global, unless a script made the global refuse assignment.
ExecuteAssignment(c) ==
  /\ process = "running"
  /\ Script(c) \in Assignments
  /\ LET r == Evaluate(AssignedText(Script(c), req[c]))
     IN IF envs[rt[c]].trapped \/ ~r.ok
          THEN /\ fault' = [fault EXCEPT ![c] = Script(c)]
               /\ trace' = Logged(c, "throw", JNull, "")
               /\ Expect(c, FALSE)
          ELSE /\ envs' = [envs EXCEPT ![rt[c]].globals[r.global] = Bound(r.val, inv[c])]
               /\ pc' = [pc EXCEPT ![c] = StateAfter(req[c].kind, @)]
               /\ hist' = [hist EXCEPT ![c] = Append(@, StateAfter(req[c].kind, pc[c]))]
               /\ trace' = Logged(c, "return", JNull, "")
               /\ UNCHANGED <<chans, rt, tx, rx, outcome, fault>>
  /\ UNCHANGED <<callvars, process, events, stats, last>>

\* runtime.execute("do_compose.js" / "do_plan.js", ...): the driver script
\* starts to run.
ExecuteDriver(c) ==
  /\ process = "running"
  /\ pc[c] = "InputInjected"
  /\ pc' = [pc EXCEPT ![c] = "Triggered"]
  /\ hist' = [hist EXCEPT ![c] = Append(@, "Triggered")]
  /\ stats' = [stats EXCEPT ![c].script_events = 0]
  /\ UNCHANGED <<callvars, process, events, envs, chans, rt, tx, rx, outcome, fault, last,
                 trace>>

\* The running script invokes op_print; w tells whether a buffer came along
\* and whether out.write_all succeeded.
OpPrint(c, w, how) ==
  /\ process = "running"
  /\ Running(c)
  /\ "op_print" \in envs[rt[c]].ops
  /\ ModuleAllows(c, "print")
  /\ IF w = "fail"
       THEN /\ OpPanic(c, how)
            /\ trace' = Logged(c, "print_failed", JNull, how)
            /\ UNCHANGED <<stats, events>>
       ELSE /\ stats' = [Counted(c) EXCEPT ![c].printed = @ + (IF w = "ok" THEN 1 ELSE 0)]
            /\ events' = Spent
            /\ trace' = Logged(c, IF w = "ok" THEN "print" ELSE "print_nothing", JNull, "")
            /\ UNCHANGED <<process, envs, chans, pc, rt, tx, rx, outcome, hist>>
  /\ UNCHANGED <<callvars, fault, last>>

\* The running script invokes op_composition_result(value):
\*   tx.send(serde_json::from_value(value).expect("deserializing composition result"))
\*     .expect("channel must be open");
OpCompositionResult(c, value, how) ==
  /\ process = "running"
  /\ Running(c)
  /\ "op_composition_result" \in envs[rt[c]].ops
  /\ ModuleAllows(c, "deliver")
  /\ last' = [last EXCEPT ![c] = [set |-> TRUE, val |-> value]]
  /\ LET env == envs[rt[c]]
         r == from_value(value)
         m == [val |-> r, raw |-> value, by |-> inv[c],
               src |-> {env.globals[g].by : g \in {h \in InputGlobals : env.globals[h].set}}]
     IN IF r.tag = "Fail" \/ ~chans[env.tx].receiver
          THEN /\ OpPanic(c, how)
               /\ trace' = Logged(c, "deliver", value, how)
               /\ UNCHANGED <<stats, events>>
          ELSE /\ chans' = [chans EXCEPT ![env.tx].q = Append(@, m)]
               /\ stats' = [Counted(c) EXCEPT ![c].published = @ + 1]
               /\ events' = Spent
               /\ trace' = Logged(c, "deliver", value, "")
               /\ UNCHANGED <<process, envs, pc, rt, tx, rx, outcome, hist>>
  /\ UNCHANGED <<callvars, fault>>

\* The running script binds a global of its own.
ScriptWrite(c) ==
  /\ process = "running"
  /\ Running(c)
  /\ ModuleAllows(c, "write")
  /\ envs' = [envs EXCEPT ![rt[c]].globals["scratch"] = Bound(JStr(<<"seen">>), inv[c])]
  /\ stats' = Counted(c)
  /\ events' = Spent
  /\ trace' = Logged(c, "write", JNull, "")
  /\ UNCHANGED <<callvars, process, chans, pc, rt, tx, rx, outcome, hist, fault, last>>

\* The running script makes the input globals refuse assignment.
ScriptTrap(c) ==
  /\ process = "running"
  /\ Running(c)
  /\ ModuleAllows(c, "trap")
  /\ envs' = [envs EXCEPT ![rt[c]].trapped = TRUE]
  /\ stats' = Counted(c)
  /\ events' = Spent
  /\ trace' = Logged(c, "trap", JNull, "")
  /\ UNCHANGED <<callvars, process, chans, pc, rt, tx, rx, outcome, hist, fault, last>>

\* The running script ends normally: execute returns Ok.
ScriptReturn(c) ==
  /\ process = "running"
  /\ Running(c)
  /\ ModuleAllows(c, "return")
  /\ trace' = Logged(c, "return", JNull, "")
  /\ Expect(c, TRUE)
  /\ UNCHANGED <<callvars, process, events, stats, fault, last>>

\* The running script ends with an uncaught exception: execute returns Err.
ScriptThrow(c) ==
  /\ process = "running"
  /\ Running(c)
  /\ ModuleAllows(c, "throw")
  /\ fault' = [fault EXCEPT ![c] = Script(c)]
  /\ trace' = Logged(c, "throw", JNull, "")
  /\ Expect(c, FALSE)
  /\ UNCHANGED <<callvars, process, events, stats, last>>

\* The newest message is taken.
ReceivedNewest(q) == q[Len(q)]

\* rx.recv() takes the oldest message of the queue.
Received(q) == Head(q)

\* rx.recv() returns once a message is queued or every Sender is gone.
CanRecv(c) == chans[rx[c]].q # <<>> \/ chans[rx[c]].senders <= 0

\* rx.recv().expect("channel remains open"), the value of compose / plan.
Recv(c) ==
  /\ process = "running"
  /\ pc[c] = "ResultAwaited"
  /\ CanRecv(c)
  /\ IF chans[rx[c]].q # <<>>
       THEN Finish(c, Received(chans[rx[c]].q), Len(chans[rx[c]].q) - 1)
       ELSE Panic(c)
  /\ UNCHANGED <<callvars, process, events, stats, fault, last, trace>>

Next ==
  \E c \in Threads :
    \/ \E r \in Requests : Call(c, r)
    \/ RegisterOps(c)
    \/ ExecuteAssignment(c)
    \/ ExecuteDriver(c)
    \/ \E w \in {"none", "ok", "fail"}, how \in {"unwind", "abort"} : OpPrint(c, w, how)
    \/ \E value \in Deliverable(c), how \in {"unwind", "abort"} :
         OpCompositionResult(c, value, how)
    \/ ScriptWrite(c)
    \/ ScriptTrap(c)
    \/ ScriptReturn(c)
    \/ ScriptThrow(c)
    \/ Recv(c)

Spec == Init /\ [][Next]_vars

\* ---------------------------------------------------------------- claims
Returned(c) == outcome[c].k = "returned"
Value(c) == outcome[c].msg.val
Blocked(c) == pc[c] = "ResultAwaited" /\ ~CanRecv(c)

\* C1: every call of compose or plan ends; no call stays in its blocking wait
\* on the rendezvous forever.  The channel of a waiting call can only change
\* by a step of that call, so a waiting call that cannot receive never will.
C1_NoCallBlocksForever ==
  \A c \in Threads : process = "running" => ~Blocked(c)

\* C2: an error list returned to the caller is never empty.
C2_ReturnedErrorListNonEmpty ==
  \A c \in Threads : Returned(c) /\ Value(c).tag = "Err" => Len(Value(c).errs) > 0

\* C3: a call in whose session the result-delivery op published more than
\* once, or not at all, does not complete by returning a value.
C3_DeliveryCountDetected ==
  \A c \in Threads : Returned(c) => stats[c].published = 1

\* C4: when the driver script faults before the result-delivery op was
\* invoked, nothing of that call is in any rendezvous and the call ends as a
\* panic, never with a value.
C4_DriverFaultBeforeDelivery ==
  \A c \in Threads :
    fault[c] \in Drivers /\ ~last[c].set =>
      /\ pc[c] = "Closed"
      /\ outcome[c].k = "panicked"
      /\ outcome[c].msg = NoMessage
      /\ \A i \in Ids : \A n \in 1..Len(chans[i].q) : chans[i].q[n].by # inv[c]

C4_Witness ==
  \E c \in Threads : fault[c] \in Drivers /\ ~last[c].set /\ pc[c] = "Closed"

\* The values serde accepts for Result<String, Vec<Error>>, stated as a shape.
OptStrShape(v) == v.t \in {"null", "str"}
ExtShape(v) ==
  \/ v.t = "null"
  \/ v.t = "obj" /\ HasKey(v, "code") /\ Member(v, "code").t = "str"
  \/ v.t = "arr" /\ Len(v.a) = 1 /\ v.a[1].t = "str"
EntryShape(v) ==
  \/ /\ v.t = "obj"
     /\ HasKey(v, "message") => OptStrShape(Member(v, "message"))
     /\ HasKey(v, "extensions") => ExtShape(Member(v, "extensions"))
  \/ v.t = "arr" /\ Len(v.a) = 2 /\ OptStrShape(v.a[1]) /\ ExtShape(v.a[2])
Decodable(v) ==
  /\ v.t = "obj"
  /\ Len(v.k) = 1
  /\ \/ v.k[1] = "Ok" /\ v.a[1].t = "str"
     \/ /\ v.k[1] = "Err"
        /\ v.a[1].t = "arr"
        /\ \A i \in 1..Len(v.a[1].a) : EntryShape(v.a[1].a[i])

\* C5: a value passed to the result-delivery op that does not have the
\* decodable shape (one malformed entry is enough) is fatal: the call panics
\* or the process aborts, no message decoded from such a value is in any
\* rendezvous, and no call returns one.
C5_UndecodableValueIsFatal ==
  /\ \A c \in Threads :
       last[c].set /\ ~Decodable(last[c].val) => outcome[c].k \in {"panicked", "aborted"}
  /\ \A i \in Ids : \A n \in 1..Len(chans[i].q) : Decodable(chans[i].q[n].raw)
  /\ \A c \in Threads : Returned(c) => Decodable(outcome[c].msg.raw)

C5_Witness ==
  \E c \in Threads :
    /\ last[c].set
    /\ ~Decodable(last[c].val)
    /\ last[c].val.k = <<"Err">>
    /\ stats[c].published = 1
    /\ outcome[c].k = "panicked"

\* C6: a script that fails to evaluate ends the call as a panic at that very
\* step: the session went through the states up to that step and no further,
\* never awaited the rendezvous, and returned nothing.
C6_StepFailureEndsCall ==
  \A c \in Threads :
    fault[c] # "" =>
      LET n == Len(hist[c])
      IN /\ pc[c] = "Closed"
         /\ outcome[c].k = "panicked"
         /\ n >= 3
         /\ ScriptIn(req[c].kind, hist[c][n - 1]) = fault[c]
         /\ SubSeq(hist[c], 1, n - 1) = SubSeq(States(req[c].kind), 1, n - 1)
         /\ \A i \in 1..n : hist[c][i] # "ResultAwaited"

C6_Witness ==
  \E c \in Threads : fault[c] \in Assignments /\ pc[c] = "Closed"

\* C7: every session reaches Closed: while the process runs, a live
\* environment belongs to a call that is not stuck short of Closed.
C7_EverySessionCloses ==
  process = "running" =>
    \A e \in Ids : envs[e].live => \E c \in Threads : rt[c] = e /\ ~Blocked(c)

\* C8: concurrent calls share neither environment nor rendezvous; the message
\* a call returns, and every message queued for it, was sent by its own
\* session, which could read no input global bound by another call.
C8_NoCrossContamination ==
  /\ \A c1, c2 \in Threads :
       c1 # c2 /\ rt[c1] # 0 /\ rt[c2] # 0 => rt[c1] # rt[c2] /\ rx[c1] # rx[c2]
  /\ \A c \in Threads :
       rt[c] # 0 /\ envs[rt[c]].tx # 0 => envs[rt[c]].tx = rx[c]
  /\ \A c \in Threads :
       rx[c] # 0 => \A n \in 1..Len(chans[rx[c]].q) : chans[rx[c]].q[n].by = inv[c]
  /\ \A c \in Threads :
       Returned(c) => outcome[c].msg.by = inv[c] /\ outcome[c].msg.src \subseteq {inv[c]}

\* A later call has returned while an earlier call of another thread, with
\* another request, still holds its own delivered value.
C8_Witness ==
  \E c1, c2 \in Threads :
    /\ Returned(c1)
    /\ pc[c2] = "ResultAwaited"
    /\ chans[rx[c2]].q # <<>>
    /\ inv[c2] < inv[c1]
    /\ req[c1] # req[c2]

\* C9: a call starts in an environment with nothing in it, every global a
\* session can read was bound during its own call, and two calls of the probe
\* module (whose output is everything it can read) with the same arguments
\* return the same value whatever ran before or between them.
C9_FreshEnvironmentDeterminism ==
  /\ \A c \in Threads :
       pc[c] = "Created" =>
         /\ envs[rt[c]].ops = {}
         /\ ~envs[rt[c]].trapped
         /\ \A g \in GlobalNames : ~envs[rt[c]].globals[g].set
  /\ \A c \in Threads :
       rt[c] # 0 =>
         \A g \in GlobalNames :
           envs[rt[c]].globals[g].set => envs[rt[c]].globals[g].by = inv[c]
  /\ module = "probe" =>
       \A c1, c2 \in Threads :
         Returned(c1) /\ Returned(c2) /\ req[c1] = req[c2] => Value(c1) = Value(c2)

\* Two calls with the same arguments have returned, with another call
\* numbered between them.
C9_Witness ==
  /\ module = "probe"
  /\ \E c1, c2 \in Threads :
       /\ Returned(c1)
       /\ Returned(c2)
       /\ req[c1] = req[c2]
       /\ inv[c2] = inv[c1] + 2

\* The fields of a delivered error entry, read off the JSON value.
RawField(e, key, pos) ==
  IF e.t = "obj" THEN (IF HasKey(e, key) THEN Member(e, key) ELSE JNull) ELSE e.a[pos]
RawMessage(e) ==
  LET f == RawField(e, "message", 1)
  IN IF f.t = "str" THEN SomeStr(f.s) ELSE NoneStr
RawCode(e) ==
  LET x == RawField(e, "extensions", 2)
  IN CASE x.t = "obj" -> SomeStr(Member(x, "code").s)
       [] x.t = "arr" -> SomeStr(x.a[1].s)
       [] OTHER -> NoneStr

\* C10: a returned error list is the delivered list: as many entries, in the
\* same order, each with the delivered message and extensions code.
C10_ErrorListDeliveredVerbatim ==
  \A c \in Threads :
    Returned(c) /\ Value(c).tag = "Err" =>
      LET raw == outcome[c].msg.raw.a[1].a
          errs == Value(c).errs
      IN /\ outcome[c].msg.raw.k = <<"Err">>
         /\ Len(errs) = Len(raw)
         /\ \A i \in 1..Len(raw) :
              /\ errs[i].message = RawMessage(raw[i])
              /\ errs[i].extensions = RawCode(raw[i])

\* plan on the schema "Garbage" returns the one delivered syntax error, with
\* extensions absent.
C10_Witness ==
  \E c \in Threads :
    /\ Returned(c)
    /\ req[c].kind = "plan"
    /\ req[c].context.schema = <<"Garbage">>
    /\ Value(c) = Err(<<Error(SomeStr(<<"Syntax Error">>), NoneStr)>>)

\* C11: code() of an error the caller holds is its extensions code when
\* extensions is present and "UNKNOWN" when it is absent, whether or not a
\* message is present.
C11_CodeFromExtensions ==
  \A c \in Threads :
    Returned(c) /\ Value(c).tag = "Err" =>
      \A i \in 1..Len(Value(c).errs) :
        LET err == Value(c).errs[i]
        IN /\ err.extensions = NoneStr => code(err) = <<"UNKNOWN">>
           /\ \A x \in {<<"C1">>, <<"C2">>} : err.extensions = SomeStr(x) => code(err) = x
           /\ err.extensions.some => err.extensions.v \in {<<"C1">>, <<"C2">>}

\* A returned list holds an entry with message and code, one with a code and
\* no message, and one with neither.
C11_Witness ==
  \E c \in Threads :
    /\ Returned(c)
    /\ Value(c).tag = "Err"
    /\ \E i, j \in 1..Len(Value(c).errs) :
         /\ ~Value(c).errs[i].message.some
         /\ code(Value(c).errs[i]) = <<"C2">>
         /\ ~Value(c).errs[j].message.some
         /\ code(Value(c).errs[j]) = <<"UNKNOWN">>
    /\ \E i \in 1..Len(Value(c).errs) :
         Value(c).errs[i].message.some /\ code(Value(c).errs[i]) = <<"C1">>

\* C12: the serviceList global of a compose session is an array with one
\* object per service definition of the caller's list, in the caller's order,
\* each with exactly the fields name, url and typeDefs of that definition.
C12_ServiceListOrderPreserved ==
  \A c \in Threads :
    rt[c] # 0 /\ envs[rt[c]].globals["serviceList"].set =>
      LET g == envs[rt[c]].globals["serviceList"].val
          l == req[c].service_list
      IN /\ g.t = "arr"
         /\ Len(g.a) = Len(l)
         /\ \A i \in 1..Len(l) :
              /\ g.a[i].t = "obj"
              /\ g.a[i].k = <<"name", "url", "typeDefs">>
              /\ g.a[i].a[1] = JStr(l[i].name)
              /\ g.a[i].a[2] = JStr(l[i].url)
              /\ g.a[i].a[3] = JStr(l[i].type_defs)

\* The driver runs with a list of two different definitions injected.
C12_Witness ==
  \E c \in Threads :
    /\ pc[c] = "Triggered"
    /\ envs[rt[c]].globals["serviceList"].set
    /\ Len(req[c].service_list) = 2
    /\ req[c].service_list[1] # req[c].service_list[2]

\* The strings of a JSON value, in document order.
RECURSIVE Strings(_)
RECURSIVE StringsFrom(_, _)
StringsFrom(v, i) ==
  IF i > Len(v.a) THEN <<>> ELSE Strings(v.a[i]) \o StringsFrom(v, i + 1)
Strings(v) ==
  IF v.t = "str" THEN <<v.s>> ELSE IF v.t \in {"arr", "obj"} THEN StringsFrom(v, 1) ELSE <<>>

\* The strings of a request, in the order of its fields.
RECURSIVE ServiceStrings(_)
ServiceStrings(l) ==
  IF l = <<>>
    THEN <<>>
    ELSE <<Head(l).name, Head(l).url, Head(l).type_defs>> \o ServiceStrings(Tail(l))
RequestStrings(r, g) ==
  CASE g = "serviceList" -> ServiceStrings(r.service_list)
    [] g = "context" -> <<r.context.schema, r.context.query, r.context.operation>>
    [] g = "options" -> <<>>

\* C13: whatever characters the strings of a request hold, an input
\* injection faults only when a script of the session made the globals
\* refuse assignment, and the strings of the value bound to an injected
\* global are the strings of the request, character by character.
C13_MarshalingRoundTrip ==
  \A c \in Threads :
    /\ fault[c] \in Assignments => \E i \in 1..Len(trace[c]) : trace[c][i].ev = "trap"
    /\ rt[c] # 0 =>
         \A g \in InputGlobals :
           envs[rt[c]].globals[g].set =>
             Strings(envs[rt[c]].globals[g].val) = RequestStrings(req[c], g)

\* Strings with a quote, a backslash and a line feed were injected and the
\* driver runs.
C13_Witness ==
  \E c \in Threads :
    /\ pc[c] = "Triggered"
    /\ \E g \in InputGlobals :
         /\ envs[rt[c]].globals[g].set
         /\ \E i \in 1..Len(RequestStrings(req[c], g)) :
              \E j, k \in 1..Len(RequestStrings(req[c], g)[i]) :
                /\ RequestStrings(req[c], g)[i][j] = Quote
                /\ RequestStrings(req[c], g)[i][k] = Newline

\* The scripts of a session in the order of the statements that execute them.
ScriptOrder(kind) ==
  IF kind = "compose"
    THEN <<"<init>", "bridge.js", "<set_service_list>", "do_compose.js">>
    ELSE <<"<init>", "bridge.js", "<set_context>", "<set_options>", "do_plan.js">>
Rank(kind, script) ==
  CHOOSE i \in 1..Len(ScriptOrder(kind)) : ScriptOrder(kind)[i] = script
Injected(c) ==
  IF req[c].kind = "compose" THEN {"serviceList"} ELSE {"context", "options"}

\* C14: the states of a session are a prefix of Created, CapabilitiesInstalled,
\* BootstrapLoaded, ModuleLoaded, InputInjected (for plan: context, then
\* options), Triggered, ResultAwaited, possibly ended by Closed; a call that
\* returned went through all of them; past Created both ops are registered;
\* no script runs before the one before it ended or after it ended itself;
\* the driver runs with every input global bound.
C14_StepsInFixedOrder ==
  \A c \in Threads :
    pc[c] # "Idle" =>
      LET n == Len(hist[c])
          m == IF hist[c][n] = "Closed" THEN n - 1 ELSE n
          ss == States(req[c].kind)
      IN /\ pc[c] = hist[c][n]
         /\ m >= 1
         /\ m < Len(ss)
         /\ SubSeq(hist[c], 1, m) = SubSeq(ss, 1, m)
         /\ Returned(c) => hist[c] = ss
         /\ rt[c] # 0 /\ m >= 2 =>
              envs[rt[c]].ops = {"op_print", "op_composition_result"}
         /\ \A i, j \in 1..Len(trace[c]) :
              i < j =>
                /\ Rank(req[c].kind, trace[c][i].script) <= Rank(req[c].kind, trace[c][j].script)
                /\ trace[c][i].ev \in {"return", "throw"} =>
                     Rank(req[c].kind, trace[c][i].script) < Rank(req[c].kind, trace[c][j].script)
         /\ pc[c] = "ContextInjected" =>
              /\ envs[rt[c]].globals["context"].set
              /\ ~envs[rt[c]].globals["options"].set
         /\ pc[c] \in {"InputInjected", "Triggered"} =>
              \A g \in InputGlobals : envs[rt[c]].globals[g].set <=> g \in Injected(c)

\* A call of plan has returned.
C14_Witness ==
  \E c \in Threads :
    /\ req[c].kind = "plan"
    /\ Returned(c)
    /\ Len(hist[c]) = 9
    /\ Len(trace[c]) >= 6

\* The entries of the session's trace at which op_composition_result sent a
\* value into the channel.
Publishes(c) ==
  {i \in 1..Len(trace[c]) : trace[c][i].ev = "deliver" /\ trace[c][i].how = ""}

Prints(c) == {i \in 1..Len(trace[c]) : trace[c][i].ev = "print"}

\* C16 as stated: no print write of a session comes after the session's
\* result was delivered to op_composition_result.
C16_NoPrintAfterDelivery ==
  \A c \in Threads : \A i \in Publishes(c) : \A j \in Prints(c) : j < i

\* C16, amended: every print write of a call is made while one of its scripts
\* runs, before its driver script ended, hence before the call waits for and
\* returns its result.
C16_PrintsBeforeReturn ==
  \A c \in Threads :
    \A j \in Prints(c) :
      /\ trace[c][j].script \in {"<init>", "bridge.js"} \cup Drivers
      /\ \A i \in 1..Len(trace[c]) :
           trace[c][i].script \in Drivers /\ trace[c][i].ev \in {"return", "throw"} => j < i

\* A call returned whose driver script printed after it had delivered.
C16_Witness ==
  \E c \in Threads :
    /\ Returned(c)
    /\ \E i \in Publishes(c) : \E j \in Prints(c) : i < j /\ trace[c][j].script \in Drivers

\* The entry a step of the session of c adds to its trace is of kind ev.
Logs(c, evs) ==
  /\ Len(trace'[c]) = Len(trace[c]) + 1
  /\ trace'[c][Len(trace'[c])].ev \in evs

\* C17: a step of op_print that wrote its bytes, or had none to write,
\* changes nothing but the output: the channels, the environments, the state
\* and the outcome of every call are as before.  A step of op_print whose
\* write failed ends the call at once as a panic (or aborts the process): the
\* script is not resumed with an error and the call returns no value.
C17_PrintFrame ==
  [][\A c \in Threads :
       /\ Logs(c, {"print", "print_nothing"}) =>
            /\ chans' = chans
            /\ envs' = envs
            /\ pc' = pc
            /\ outcome' = outcome
            /\ last' = last
       /\ Logs(c, {"print_failed"}) =>
            /\ outcome'[c].k \in {"panicked", "aborted"}
            /\ outcome'[c].msg = NoMessage
            /\ outcome'[c].k = "panicked" => pc'[c] = "Closed" /\ rt'[c] = 0
            /\ outcome'[c].k = "aborted" => process' = "aborted"]_vars

\* A session published a value and was then ended by a failed write.
C17_Witness ==
  \E c \in Threads :
    /\ outcome[c].k = "panicked"
    /\ trace[c] # <<>>
    /\ trace[c][Len(trace[c])].ev = "print_failed"
    /\ Publishes(c) # {}

\* What compose and plan differ in is taken out of a session's record: the
\* script names become the roles of the scripts, and the first of plan's two
\* input injections, once it succeeded, is not counted as a step of its own.
Role(script) ==
  CASE script = "<init>" -> "bootstrap"
    [] script = "bridge.js" -> "module"
    [] script \in Assignments -> "inject"
    [] script \in Drivers -> "driver"
    [] OTHER -> ""
Behaviour(c) ==
  LET kept == SelectSeq(trace[c], LAMBDA e : ~(e.script = "<set_context>" /\ e.ev = "return"))
  IN [i \in 1..Len(kept) |-> [kept[i] EXCEPT !.script = Role(@)]]
Lifecycle(c) == SelectSeq(hist[c], LAMBDA st : st # "ContextInjected")
Ended(c) == outcome[c].k # "none" \/ Blocked(c)
OutcomeKind(c) ==
  CASE Returned(c) /\ Value(c).tag = "Ok" -> "success"
    [] Returned(c) /\ Value(c).tag = "Err" -> "error list"
    [] outcome[c].k \in {"panicked", "aborted"} -> "bridge failure"
    [] Blocked(c) -> "blocked"
    [] OTHER -> "running"

\* C18: a call of compose and a call of plan whose scripts behaved alike (same
\* events in the same script roles, same delivered values, same endings) went
\* through the same session states, ended the same way, at the same state,
\* and, if they returned, with the same result.
C18_SameLifecycle ==
  \A c1, c2 \in Threads :
    /\ req[c1].kind = "compose"
    /\ req[c2].kind = "plan"
    /\ Ended(c1)
    /\ Ended(c2)
    /\ Behaviour(c1) = Behaviour(c2)
    => /\ Lifecycle(c1) = Lifecycle(c2)
       /\ OutcomeKind(c1) = OutcomeKind(c2)
       /\ outcome[c1].k = outcome[c2].k
       /\ outcome[c1].at = outcome[c2].at
       /\ Value(c1) = Value(c2)
       /\ outcome[c1].unread = outcome[c2].unread

\* A compose and a plan whose module scripts delivered the same error list
\* have both returned it.
C18_Witness ==
  \E c1, c2 \in Threads :
    /\ req[c1].kind = "compose"
    /\ req[c2].kind = "plan"
    /\ Behaviour(c1) = Behaviour(c2)
    /\ Returned(c1)
    /\ Returned(c2)
    /\ Value(c1).tag = "Err"

\* C19: when the driver script delivered a decodable value and then failed,
\* the call ends as a panic at the trigger step, the published value is in no
\* channel any more and is not returned; a call that returned had its driver
\* script end normally.
C19_FaultAfterDeliveryDiscards ==
  \A c \in Threads :
    /\ fault[c] \in Drivers /\ Publishes(c) # {} =>
         /\ pc[c] = "Closed"
         /\ outcome[c].k = "panicked"
         /\ outcome[c].at = "Triggered"
         /\ outcome[c].msg = NoMessage
         /\ \A i \in Ids : \A n \in 1..Len(chans[i].q) : chans[i].q[n].by # inv[c]
    /\ Returned(c) =>
         /\ fault[c] = ""
         /\ \E i \in 1..Len(trace[c]) :
              trace[c][i].script \in Drivers /\ trace[c][i].ev = "return"

\* The driver script delivered a success value and then threw.
C19_Witness ==
  \E c \in Threads :
    /\ fault[c] \in Drivers
    /\ \E i \in Publishes(c) :
         /\ trace[c][i].script \in Drivers
         /\ from_value(trace[c][i].val).tag = "Ok"
    /\ pc[c] = "Closed"

\* C20: a call that returned took one message from its channel, the first
\* its session published; the values published after it were left in the
\* queue, which went away with the call: no message of a closed call is in
\* any channel.
C20_FirstPublishedReturned ==
  \A c \in Threads :
    /\ Returned(c) =>
         LET first == CHOOSE i \in Publishes(c) : \A j \in Publishes(c) : i <= j
         IN /\ Publishes(c) # {}
            /\ outcome[c].msg.raw = trace[c][first].val
            /\ Value(c) = from_value(trace[c][first].val)
            /\ outcome[c].unread = Cardinality(Publishes(c)) - 1
    /\ pc[c] = "Closed" =>
         /\ rx[c] = 0
         /\ \A i \in Ids : \A n \in 1..Len(chans[i].q) : chans[i].q[n].by # inv[c]
    /\ pc[c] = "ResultAwaited" =>
         /\ Len(chans[rx[c]].q) = Cardinality(Publishes(c))
         /\ \A n \in 1..Len(chans[rx[c]].q) :
              Cardinality({i \in Publishes(c) : trace[c][i].val = chans[rx[c]].q[n].raw}) >= 1

\* A call returned the first of two different values its session published.
C20_Witness ==
  \E c \in Threads :
    /\ Returned(c)
    /\ outcome[c].unread = 1
    /\ \E i, j \in Publishes(c) :
         /\ i < j
         /\ trace[c][i].val # trace[c][j].val
         /\ outcome[c].msg.raw = trace[c][i].val

====
